---- MODULE Spec2Model ----
(***************************************************************************)
(* biger_validator.py: a line-oriented validator of bigER diagram files.   *)
(* A text is a sequence of one-character strings; the file's text is split *)
(* into lines and six checks append their findings to one issue list.      *)
(***************************************************************************)
EXTENDS Integers, Sequences, FiniteSets, TLC

\* ------------------------------------------------------------ characters

\* The characters str.strip() removes and the regex class \s matches.
Whitespace == {" ", "\t", "\n", "\r"}

\* The regex class [A-Za-z].
Letters ==
  {"a","b","c","d","e","f","g","h","i","j","k","l","m",
   "n","o","p","q","r","s","t","u","v","w","x","y","z",
   "A","B","C","D","E","F","G","H","I","J","K","L","M",
   "N","O","P","Q","R","S","T","U","V","W","X","Y","Z"}

\* The regex class [A-Za-z_], the first character of a declared name.
IdentStart == Letters \cup {"_"}

\* ------------------------------------------------------------ str methods

StartsWith(s, p) == Len(s) >= Len(p) /\ SubSeq(s, 1, Len(p)) = p

EndsWith(s, p) == Len(s) >= Len(p) /\ SubSeq(s, Len(s) - Len(p) + 1, Len(s)) = p

RECURSIVE LStrip(_)
LStrip(s) == IF s # <<>> /\ Head(s) \in Whitespace THEN LStrip(Tail(s)) ELSE s

RECURSIVE RStrip(_)
RStrip(s) ==
  IF s # <<>> /\ s[Len(s)] \in Whitespace THEN RStrip(SubSeq(s, 1, Len(s) - 1)) ELSE s

Strip(s) == RStrip(LStrip(s))

Count(s, c) == Cardinality({k \in 1..Len(s) : s[k] = c})

\* The places where sub occurs in s.
Occurrences(s, sub) ==
  {k \in 1..(Len(s) - Len(sub) + 1) : SubSeq(s, k, k + Len(sub) - 1) = sub}

Contains(s, sub) == Occurrences(s, sub) # {}

Min(S) == CHOOSE m \in S : \A n \in S : m <= n

\* str.split(sep): cut at every occurrence of sep, leftmost first.
RECURSIVE Split(_, _)
Split(s, sep) ==
  IF ~Contains(s, sep) THEN <<s>>
  ELSE LET k == Min(Occurrences(s, sep))
       IN  <<SubSeq(s, 1, k - 1)>> \o Split(SubSeq(s, k + Len(sep), Len(s)), sep)

\* str.splitlines(): a line ends at "\n", "\r" or "\r\n"; no empty last line.
RECURSIVE SplitLines(_)
SplitLines(t) ==
  IF t = <<>> THEN <<>>
  ELSE LET brk == {k \in 1..Len(t) : t[k] \in {"\n", "\r"}}
       IN  IF brk = {} THEN <<t>>
           ELSE LET k == Min(brk)
                    n == IF t[k] = "\r" /\ k < Len(t) /\ t[k + 1] = "\n" THEN 2 ELSE 1
                IN  <<SubSeq(t, 1, k - 1)>> \o SplitLines(SubSeq(t, k + n, Len(t)))

\* ------------------------------------------------------------ patterns

KwErdiagram == <<"e", "r", "d", "i", "a", "g", "r", "a", "m">>
KwNotation == <<"n", "o", "t", "a", "t", "i", "o", "n", "=">>
KwEntity == <<"e", "n", "t", "i", "t", "y">>
KwWeakEntity == <<"w", "e", "a", "k", " ", "e", "n", "t", "i", "t", "y">>
KwRelationship == <<"r", "e", "l", "a", "t", "i", "o", "n", "s", "h", "i", "p">>
Arrow == <<"-", ">">>

\* DeclMatch with a name that may start with a digit, [A-Za-z0-9_]+.
DeclMatch_DigitFirst(kw, s) ==
  /\ StartsWith(s, kw)
  /\ \E n \in 1..(Len(s) - Len(kw) - 1) :
       /\ \A k \in 1..n : s[Len(kw) + k] \in Whitespace
       /\ s[Len(kw) + n + 1] \in IdentStart \cup {"0", "1", "2", "3", "4", "5", "6", "7", "8", "9"}

\* A regex ^kw\s+([A-Za-z_][A-Za-z0-9_]*) matched at the start of s: kw, one
\* or more whitespace characters, then the first character of a name (the
\* rest of the name, [A-Za-z0-9_]*, matches the empty text too).
DeclMatch(kw, s) ==
  /\ StartsWith(s, kw)
  /\ \E n \in 1..(Len(s) - Len(kw) - 1) :
       /\ \A k \in 1..n : s[Len(kw) + k] \in Whitespace
       /\ s[Len(kw) + n + 1] \in IdentStart

ENTITY_DECL(s) == DeclMatch(KwEntity, s)
WEAK_ENTITY_DECL(s) == DeclMatch(KwWeakEntity, s)
REL_DECL(s) == DeclMatch(KwRelationship, s)

\* The lengths of the texts at place p of t that the group
\* (?:0\..N|1\..N|0\..1|1\..1|N|1) matches: in a\..b the first dot is
\* escaped and the second is the regex dot, any character but a line break.
CardAltLens(t, p) ==
  {n \in {1, 4} :
     /\ p + n - 1 <= Len(t)
     /\ \/ n = 1 /\ t[p] \in {"N", "1"}
        \/ /\ n = 4
           /\ t[p] \in {"0", "1"}
           /\ t[p + 1] = "."
           /\ t[p + 2] # "\n"
           /\ t[p + 3] \in {"N", "1"}}

\* re.search(r"\[(?:0\..N|1\..N|0\..1|1\..1|N|1)\]", t)
CardSearch(t) ==
  \E p \in 1..Len(t) :
    /\ t[p] = "["
    /\ \E n \in CardAltLens(t, p + 1) :
         p + n + 1 <= Len(t) /\ t[p + n + 1] = "]"

\* RoleSearch without the \s* before the bar.
RoleSearch_NoSpace(t) ==
  \E p \in 1..Len(t) :
    /\ t[p] = "["
    /\ \E n \in CardAltLens(t, p + 1) :
         p + n + 1 <= Len(t) /\ t[p + n + 1] = "|"

\* re.search(r"\[(?:0\..N|1\..N|0\..1|1\..1|N|1)\s*\|", t)
RoleSearch(t) ==
  \E p \in 1..Len(t) :
    /\ t[p] = "["
    /\ \E n \in CardAltLens(t, p + 1) :
         \E w \in 0..(Len(t) - p - n - 1) :
           /\ \A k \in 1..w : t[p + n + k] \in Whitespace
           /\ t[p + n + w + 1] = "|"

\* ------------------------------------------------------------ issues

\* An issue is its message: the fixed wording (kind), the line number it
\* cites (0 when the message cites none) and the quoted text ("" when none).
Issue(kind, n, s) == [kind |-> kind, line |-> n, text |-> s]

HeaderIssue == Issue("Missing or malformed header", 0, <<>>)
NotationIssue == Issue("Missing notation declaration", 0, <<>>)
UnmatchedIssue(n) == Issue("Unmatched closing brace", n, <<>>)
MismatchedIssue == Issue("Mismatched braces", 0, <<>>)
EntityIssue(n, s) == Issue("Invalid entity declaration", n, s)
RelationshipIssue(n, s) == Issue("Invalid relationship declaration", n, s)
CardinalityIssue(n, s) == Issue("Unrecognized cardinality", n, s)
QuoteIssue(n) == Issue("Quoted identifiers or roles found", n, <<>>)

\* A printed line: a fixed message, or "- " followed by an issue.
Printed(what, it) == [what |-> what, issue |-> it]
NoIssue == Issue("", 0, <<>>)

\* ------------------------------------------------------------ the checks

\* lines[:10]
NotationWindow == 10

\* HeaderMissing on the first line as it stands, not stripped.
HeaderMissing_NoStrip(ls) == ls = <<>> \/ ~StartsWith(ls[1], KwErdiagram)

HeaderMissing(ls) == ls = <<>> \/ ~StartsWith(Strip(ls[1]), KwErdiagram)

\* NotationMissing over all the lines, not lines[:10].
NotationMissing_AllLines(ls) ==
  ~\E k \in 1..Len(ls) : StartsWith(Strip(ls[k]), KwNotation)

NotationMissing(ls) ==
  ~\E k \in 1..Len(ls) : k <= NotationWindow /\ StartsWith(Strip(ls[k]), KwNotation)

\* BraceCount counting a line once however many braces it holds.
BraceCount_OncePerLine(ob, line) ==
  ob + (IF Contains(line, <<"{">>) THEN 1 ELSE 0) - (IF Contains(line, <<"}">>) THEN 1 ELSE 0)

\* The counter after a line's braces are counted, before the test for < 0.
BraceCount(ob, line) == ob + Count(line, "{") - Count(line, "}")

\* BraceReset without the reset.
BraceReset_Kept(ob) == ob

\* The counter a line leaves behind.
BraceReset(ob) == IF ob < 0 THEN 0 ELSE ob

IsEntityLine(s) ==
  StartsWith(s, KwEntity \o <<" ">>) \/ StartsWith(s, KwWeakEntity \o <<" ">>)

IsRelationshipLine(s) == StartsWith(s, KwRelationship \o <<" ">>)

\* What the declaration check appends for line n.
DeclIssues(n, line) ==
  LET s == Strip(line)
  IN  (IF IsEntityLine(s) /\ ~(ENTITY_DECL(s) \/ WEAK_ENTITY_DECL(s))
         THEN <<EntityIssue(n, s)>> ELSE <<>>)
      \o (IF IsRelationshipLine(s) /\ ~REL_DECL(s)
            THEN <<RelationshipIssue(n, s)>> ELSE <<>>)

\* A segment of an arrow line that the cardinality check reports.
SegmentBad(t) ==
  /\ Contains(t, <<"[">>) /\ Contains(t, <<"]">>)
  /\ ~CardSearch(t)
  /\ ~(Contains(t, <<"|">>) /\ RoleSearch(t))

\* What the cardinality check appends for line n while rel_block is set.
CardIssues(n, line) ==
  IF Contains(line, Arrow)
    THEN LET bad == SelectSeq(Split(line, Arrow), SegmentBad)
         IN  [k \in 1..Len(bad) |-> CardinalityIssue(n, Strip(line))]
    ELSE <<>>

\* RelBlockCleared with the closing test left out.
RelBlockCleared_Never(rb, line) == rb

\* rel_block while line is checked, and after it.
RelBlockSet(rb, line) == rb \/ IsRelationshipLine(Strip(line))
RelBlockCleared(rb, line) == rb /\ ~EndsWith(Strip(line), <<"}">>)

QuoteIssues(n, line) == IF Contains(line, <<"\"">>) THEN <<QuoteIssue(n)>> ELSE <<>>

\* ExitStatus with sys.exit(0) on both branches.
ExitStatus_Zero(is) == 0

ExitStatus(is) == IF is = <<>> THEN 0 ELSE 1

ReportLines(is) ==
  IF is = <<>> THEN <<Printed("PASS", NoIssue)>>
  ELSE <<Printed("Found issues:", NoIssue)>> \o [k \in 1..Len(is) |-> Printed("- ", is[k])]

\* ------------------------------------------------------------ input files

MaxBraceLines == 4
MaxDeclLines == 2
MaxCardLines == 3
MaxBody == 2
MaxPad == 11

\* The sequences of at most n lines drawn from pool.
SeqsUpTo(pool, n) == UNION {[1..m -> pool] : m \in 0..n}

Filler == <<"x">>

\* As text, between bars: |{|, |}|, |}}|
BracePool == {<<"{">>, <<"}">>, <<"}", "}">>, Filler}

\* As text, between bars: |entity Foo {|, |entity 2Bad { id }|,
\*   |entity \tFoo|, |weak entity 2b|, |relationship 9R {|,
\*   |relationship \t_r|
DeclPool ==
  {<<"e", "n", "t", "i", "t", "y", " ", "F", "o", "o", " ", "{">>, <<"e", "n", "t", "i", "t", "y", " ", "2", "B", "a", "d", " ", "{", " ", "i", "d", " ", "}">>, <<"e", "n", "t", "i", "t", "y", " ", "\t", "F", "o", "o">>,
   <<"w", "e", "a", "k", " ", "e", "n", "t", "i", "t", "y", " ", "2", "b">>, <<"r", "e", "l", "a", "t", "i", "o", "n", "s", "h", "i", "p", " ", "9", "R", " ", "{">>, <<"r", "e", "l", "a", "t", "i", "o", "n", "s", "h", "i", "p", " ", "\t", "_", "r">>}

\* Declaration lines tried one to a document.
\* As text, between bars: |entity _x|, |  entity Foo {  |, |entity  Foo|,
\*   |entity {|, |entity|, |entityFoo|, |entity\tFoo|, |weak entity Foo {|,
\*   |weak  entity X|, |weak entity \tW|, |relationship R {|,
\*   |relationship {|
DeclExtra ==
  {<<"e", "n", "t", "i", "t", "y", " ", "_", "x">>, <<" ", " ", "e", "n", "t", "i", "t", "y", " ", "F", "o", "o", " ", "{", " ", " ">>, <<"e", "n", "t", "i", "t", "y", " ", " ", "F", "o", "o">>, <<"e", "n", "t", "i", "t", "y", " ", "{">>, <<"e", "n", "t", "i", "t", "y">>,
   <<"e", "n", "t", "i", "t", "y", "F", "o", "o">>, <<"e", "n", "t", "i", "t", "y", "\t", "F", "o", "o">>, <<"w", "e", "a", "k", " ", "e", "n", "t", "i", "t", "y", " ", "F", "o", "o", " ", "{">>, <<"w", "e", "a", "k", " ", " ", "e", "n", "t", "i", "t", "y", " ", "X">>,
   <<"w", "e", "a", "k", " ", "e", "n", "t", "i", "t", "y", " ", "\t", "W">>, <<"r", "e", "l", "a", "t", "i", "o", "n", "s", "h", "i", "p", " ", "R", " ", "{">>, <<"r", "e", "l", "a", "t", "i", "o", "n", "s", "h", "i", "p", " ", "{">>}

\* As text, between bars: |relationship R {|, |}|, |A -> B [maybe]|,
\*   |  relationship R { A -> B [maybe] }  |, |a { }|
CardPool ==
  {<<"r", "e", "l", "a", "t", "i", "o", "n", "s", "h", "i", "p", " ", "R", " ", "{">>, <<"}">>, <<"A", " ", "-", ">", " ", "B", " ", "[", "m", "a", "y", "b", "e", "]">>,
   <<" ", " ", "r", "e", "l", "a", "t", "i", "o", "n", "s", "h", "i", "p", " ", "R", " ", "{", " ", "A", " ", "-", ">", " ", "B", " ", "[", "m", "a", "y", "b", "e", "]", " ", "}", " ", " ">>, <<"a", " ", "{", " ", "}">>}

\* Arrow lines tried on the line after a relationship line.
\* As text, between bars: |A -> B [0..N]|, |A -> B [1..N]|, |A -> B [0..1]|,
\*   |A -> B [1..1]|, |A -> B [N]|, |B -> A [1]|, |A [1 | r] -> B [0..N]|,
\*   |A -> B [1|r]|, |A -> B [maybe]|, |A [maybe] -> B [x]|,
\*   |A -> B [maybe] [1]|, |A -> B [0.xN]|, |A -> B [2 | r]|, |A -> B [1.1]|,
\*   |A -> B [1-1]|, |A [1 -> 1] B|, |A [x] B|, |A -> B [0..N|
ArrowPool ==
  {<<"A", " ", "-", ">", " ", "B", " ", "[", "0", ".", ".", "N", "]">>, <<"A", " ", "-", ">", " ", "B", " ", "[", "1", ".", ".", "N", "]">>, <<"A", " ", "-", ">", " ", "B", " ", "[", "0", ".", ".", "1", "]">>, <<"A", " ", "-", ">", " ", "B", " ", "[", "1", ".", ".", "1", "]">>,
   <<"A", " ", "-", ">", " ", "B", " ", "[", "N", "]">>, <<"B", " ", "-", ">", " ", "A", " ", "[", "1", "]">>, <<"A", " ", "[", "1", " ", "|", " ", "r", "]", " ", "-", ">", " ", "B", " ", "[", "0", ".", ".", "N", "]">>, <<"A", " ", "-", ">", " ", "B", " ", "[", "1", "|", "r", "]">>,
   <<"A", " ", "-", ">", " ", "B", " ", "[", "m", "a", "y", "b", "e", "]">>, <<"A", " ", "[", "m", "a", "y", "b", "e", "]", " ", "-", ">", " ", "B", " ", "[", "x", "]">>, <<"A", " ", "-", ">", " ", "B", " ", "[", "m", "a", "y", "b", "e", "]", " ", "[", "1", "]">>,
   <<"A", " ", "-", ">", " ", "B", " ", "[", "0", ".", "x", "N", "]">>, <<"A", " ", "-", ">", " ", "B", " ", "[", "2", " ", "|", " ", "r", "]">>, <<"A", " ", "-", ">", " ", "B", " ", "[", "1", ".", "1", "]">>, <<"A", " ", "-", ">", " ", "B", " ", "[", "1", "-", "1", "]">>,
   <<"A", " ", "[", "1", " ", "-", ">", " ", "1", "]", " ", "B">>, <<"A", " ", "[", "x", "]", " ", "B">>, <<"A", " ", "-", ">", " ", "B", " ", "[", "0", ".", ".", "N">>}

\* As text, between bars: |erdiagram Shop|, |  erdiagram|, |erdiagramX|,
\*   |diagram X|, ||
HeaderPool == {<<"e", "r", "d", "i", "a", "g", "r", "a", "m", " ", "S", "h", "o", "p">>, <<" ", " ", "e", "r", "d", "i", "a", "g", "r", "a", "m">>, <<"e", "r", "d", "i", "a", "g", "r", "a", "m", "X">>, <<"d", "i", "a", "g", "r", "a", "m", " ", "X">>, <<>>}
\* As text, between bars: |notation=crowsfoot|, | notation=c|, |notation =c|
NotationPool == {<<"n", "o", "t", "a", "t", "i", "o", "n", "=", "c", "r", "o", "w", "s", "f", "o", "o", "t">>, <<" ", "n", "o", "t", "a", "t", "i", "o", "n", "=", "c">>, <<"n", "o", "t", "a", "t", "i", "o", "n", " ", "=", "c">>}

\* As text, between bars: |entity Order {|, |  id|, |}|, |entity 2Bad {|,
\*   |relationship R { A -> B [maybe] }|, |  name "q"|
BodyPool ==
  {<<"e", "n", "t", "i", "t", "y", " ", "O", "r", "d", "e", "r", " ", "{">>, <<" ", " ", "i", "d">>, <<"}">>, <<"e", "n", "t", "i", "t", "y", " ", "2", "B", "a", "d", " ", "{">>,
   <<"r", "e", "l", "a", "t", "i", "o", "n", "s", "h", "i", "p", " ", "R", " ", "{", " ", "A", " ", "-", ">", " ", "B", " ", "[", "m", "a", "y", "b", "e", "]", " ", "}">>, <<" ", " ", "n", "a", "m", "e", " ", "\"", "q", "\"">>}

Pad(n) == [k \in 1..n |-> Filler]

BraceDocs == SeqsUpTo(BracePool, MaxBraceLines)
\* As text, between bars: |erdiagram Shop|, |notation=crowsfoot|
Preamble == <<<<"e", "r", "d", "i", "a", "g", "r", "a", "m", " ", "S", "h", "o", "p">>, <<"n", "o", "t", "a", "t", "i", "o", "n", "=", "c", "r", "o", "w", "s", "f", "o", "o", "t">>>>

DeclDocs ==
  SeqsUpTo(DeclPool, MaxDeclLines)
    \cup {p \o <<l>> : p \in {<<>>, Preamble}, l \in DeclPool \cup DeclExtra}
CardDocs ==
  SeqsUpTo(CardPool, MaxCardLines)
    \cup {p \o <<<<"r", "e", "l", "a", "t", "i", "o", "n", "s", "h", "i", "p", " ", "R", " ", "{">>, l, <<"}">>>> : p \in {<<>>, Preamble}, l \in ArrowPool}
NotationDocs ==
  {Pad(k) \o <<n>> \o Pad(j) : k \in 0..MaxPad, n \in NotationPool, j \in 0..1}
    \cup {Pad(k) : k \in 0..MaxPad}
GenDocs ==
  {h \o n \o b :
     h \in {<<>>, <<<<"e", "r", "d", "i", "a", "g", "r", "a", "m", " ", "S", "h", "o", "p">>>>},
     n \in {<<>>, <<<<"n", "o", "t", "a", "t", "i", "o", "n", "=", "c", "r", "o", "w", "s", "f", "o", "o", "t">>>>},
     b \in SeqsUpTo(BodyPool, MaxBody)}
HeaderDocs ==
  {<<h, <<"n", "o", "t", "a", "t", "i", "o", "n", "=", "c", "r", "o", "w", "s", "f", "o", "o", "t">>>> \o b : h \in HeaderPool, b \in SeqsUpTo(BodyPool, 1)}
\* As text, between bars: |erdiagram Shop|, |notation=crowsfoot|,
\*   |entity Order {|, |  id|, |}|, |notation=crowsfoot|, |entity Order {|,
\*   |id|, |}|, |erdiagram Shop|, |notation=crowsfoot|, |weak entity W { k }|,
\*   |relationship R {|, |  A -> B [0..N]|, |  B -> A [1 | r]|, |}|
ScenarioDocs ==
  {<<<<"e", "r", "d", "i", "a", "g", "r", "a", "m", " ", "S", "h", "o", "p">>, <<"n", "o", "t", "a", "t", "i", "o", "n", "=", "c", "r", "o", "w", "s", "f", "o", "o", "t">>, <<"e", "n", "t", "i", "t", "y", " ", "O", "r", "d", "e", "r", " ", "{">>, <<" ", " ", "i", "d">>, <<"}">>>>,
   <<<<"n", "o", "t", "a", "t", "i", "o", "n", "=", "c", "r", "o", "w", "s", "f", "o", "o", "t">>, <<"e", "n", "t", "i", "t", "y", " ", "O", "r", "d", "e", "r", " ", "{">>, <<"i", "d">>, <<"}">>>>,
   <<<<"e", "r", "d", "i", "a", "g", "r", "a", "m", " ", "S", "h", "o", "p">>, <<"n", "o", "t", "a", "t", "i", "o", "n", "=", "c", "r", "o", "w", "s", "f", "o", "o", "t">>, <<"w", "e", "a", "k", " ", "e", "n", "t", "i", "t", "y", " ", "W", " ", "{", " ", "k", " ", "}">>,
     <<"r", "e", "l", "a", "t", "i", "o", "n", "s", "h", "i", "p", " ", "R", " ", "{">>, <<" ", " ", "A", " ", "-", ">", " ", "B", " ", "[", "0", ".", ".", "N", "]">>, <<" ", " ", "B", " ", "-", ">", " ", "A", " ", "[", "1", " ", "|", " ", "r", "]">>, <<"}">>>>}

Docs ==
  BraceDocs \cup DeclDocs \cup CardDocs \cup NotationDocs \cup GenDocs
    \cup HeaderDocs \cup ScenarioDocs

\* The text of a file whose lines are doc, each ended by a line break.
RECURSIVE FileText(_)
FileText(doc) == IF doc = <<>> THEN <<>> ELSE Head(doc) \o <<"\n">> \o FileText(Tail(doc))

\* What the path names: nothing, a file that cannot be read, or a text file.
File(exists, readable, text) == [exists |-> exists, readable |-> readable, text |-> text]

Files ==
  {File(FALSE, FALSE, <<>>), File(TRUE, FALSE, <<>>)}
    \cup {File(TRUE, TRUE, FileText(d)) : d \in Docs}

\* ------------------------------------------------------------ the run

VARIABLES
  nargs,        \* the number of command-line arguments, len(sys.argv) - 1
  file,         \* what the path argument names
  pc,           \* where the run is
  lines,        \* check_file: the lines of the text
  issues,       \* check_file: the issue list
  i,            \* check_file: the line number of the loop that is running
  open_braces,  \* check_file: the brace counter
  rel_block,    \* check_file: the inside-relationship flag
  out,          \* the lines printed to standard output
  status        \* the exit status, -1 while the run has not exited

vars == <<nargs, file, pc, lines, issues, i, open_braces, rel_block, out, status>>

Init ==
  /\ nargs \in 0..2
  /\ file \in Files
  /\ pc = "main"
  /\ lines = <<>>
  /\ issues = <<>>
  /\ i = 0
  /\ open_braces = 0
  /\ rel_block = FALSE
  /\ out = <<>>
  /\ status = -1

Exit(code, printed) ==
  /\ pc' = "exit"
  /\ status' = code
  /\ out' = out \o printed

\* len(sys.argv) != 2
Usage ==
  /\ pc = "main" /\ nargs + 1 # 2
  /\ Exit(2, <<Printed("Usage", NoIssue)>>)
  /\ UNCHANGED <<nargs, file, lines, issues, i, open_braces, rel_block>>

\* not p.exists()
FileNotFound ==
  /\ pc = "main" /\ nargs + 1 = 2 /\ ~file.exists
  /\ Exit(2, <<Printed("File not found", NoIssue)>>)
  /\ UNCHANGED <<nargs, file, lines, issues, i, open_braces, rel_block>>

\* path.read_text raises: the exception is not caught and the interpreter
\* exits with status 1, the traceback on standard error.
ReadFails ==
  /\ pc = "main" /\ nargs + 1 = 2 /\ file.exists /\ ~file.readable
  /\ pc' = "raised"
  /\ status' = 1
  /\ UNCHANGED <<nargs, file, lines, issues, i, open_braces, rel_block, out>>

ReadText ==
  /\ pc = "main" /\ nargs + 1 = 2 /\ file.exists /\ file.readable
  /\ lines' = SplitLines(file.text)
  /\ issues' = <<>>
  /\ pc' = "header"
  /\ UNCHANGED <<nargs, file, i, open_braces, rel_block, out, status>>

CheckHeader ==
  /\ pc = "header"
  /\ issues' = IF HeaderMissing(lines) THEN Append(issues, HeaderIssue) ELSE issues
  /\ pc' = "notation"
  /\ UNCHANGED <<nargs, file, lines, i, open_braces, rel_block, out, status>>

\* CheckNotation skipped once the header check has reported.
CheckNotation_ShortCircuit ==
  /\ pc = "notation"
  /\ issues' = IF issues = <<>> /\ NotationMissing(lines)
                 THEN Append(issues, NotationIssue) ELSE issues
  /\ pc' = "braces"
  /\ i' = 1
  /\ open_braces' = 0
  /\ UNCHANGED <<nargs, file, lines, rel_block, out, status>>

CheckNotation ==
  /\ pc = "notation"
  /\ issues' = IF NotationMissing(lines) THEN Append(issues, NotationIssue) ELSE issues
  /\ pc' = "braces"
  /\ i' = 1
  /\ open_braces' = 0
  /\ UNCHANGED <<nargs, file, lines, rel_block, out, status>>

BraceLine ==
  /\ pc = "braces" /\ i <= Len(lines)
  /\ LET ob == BraceCount(open_braces, lines[i])
     IN  /\ issues' = IF ob < 0 THEN Append(issues, UnmatchedIssue(i)) ELSE issues
         /\ open_braces' = BraceReset(ob)
  /\ i' = i + 1
  /\ UNCHANGED <<nargs, file, pc, lines, rel_block, out, status>>

BraceEnd ==
  /\ pc = "braces" /\ i > Len(lines)
  /\ issues' = IF open_braces # 0 THEN Append(issues, MismatchedIssue) ELSE issues
  /\ pc' = "decl"
  /\ i' = 1
  /\ UNCHANGED <<nargs, file, lines, open_braces, rel_block, out, status>>

DeclLine ==
  /\ pc = "decl" /\ i <= Len(lines)
  /\ issues' = issues \o DeclIssues(i, lines[i])
  /\ i' = i + 1
  /\ UNCHANGED <<nargs, file, pc, lines, open_braces, rel_block, out, status>>

DeclEnd ==
  /\ pc = "decl" /\ i > Len(lines)
  /\ pc' = "card"
  /\ i' = 1
  /\ rel_block' = FALSE
  /\ UNCHANGED <<nargs, file, lines, issues, open_braces, out, status>>

CardLine ==
  /\ pc = "card" /\ i <= Len(lines)
  /\ LET rb == RelBlockSet(rel_block, lines[i])
     IN  /\ issues' = IF rb THEN issues \o CardIssues(i, lines[i]) ELSE issues
         /\ rel_block' = RelBlockCleared(rb, lines[i])
  /\ i' = i + 1
  /\ UNCHANGED <<nargs, file, pc, lines, open_braces, out, status>>

CardEnd ==
  /\ pc = "card" /\ i > Len(lines)
  /\ pc' = "quote"
  /\ i' = 1
  /\ UNCHANGED <<nargs, file, lines, issues, open_braces, rel_block, out, status>>

QuoteLine ==
  /\ pc = "quote" /\ i <= Len(lines)
  /\ issues' = issues \o QuoteIssues(i, lines[i])
  /\ i' = i + 1
  /\ UNCHANGED <<nargs, file, pc, lines, open_braces, rel_block, out, status>>

\* return issues
QuoteEnd ==
  /\ pc = "quote" /\ i > Len(lines)
  /\ pc' = "report"
  /\ UNCHANGED <<nargs, file, lines, issues, i, open_braces, rel_block, out, status>>

Report ==
  /\ pc = "report"
  /\ Exit(ExitStatus(issues), ReportLines(issues))
  /\ UNCHANGED <<nargs, file, lines, issues, i, open_braces, rel_block>>

Next ==
  \/ Usage \/ FileNotFound \/ ReadFails \/ ReadText
  \/ CheckHeader \/ CheckNotation
  \/ BraceLine \/ BraceEnd
  \/ DeclLine \/ DeclEnd
  \/ CardLine \/ CardEnd
  \/ QuoteLine \/ QuoteEnd
  \/ Report

Spec == Init /\ [][Next]_vars

\* ------------------------------------------------------------ properties

\* check_file has returned and the run has exited with its status.
Finished == pc = "exit" /\ status # 2

\* The run is at or past the named place of check_file.
AfterHeader == pc \in {"notation", "braces", "decl", "card", "quote", "report"} \/ Finished
AfterNotation == pc \in {"braces", "decl", "card", "quote", "report"} \/ Finished
AfterBraces == pc \in {"decl", "card", "quote", "report"} \/ Finished
AfterDecl == pc \in {"card", "quote", "report"} \/ Finished
AfterCard == pc \in {"quote", "report"} \/ Finished
Returned == pc = "report" \/ Finished

CountIn(seq, x) == Cardinality({k \in DOMAIN seq : seq[k] = x})

IssuesOfKind(kinds) ==
  LET Is(x) == x.kind \in kinds IN SelectSeq(issues, Is)

\* f[1] \o ... \o f[n]
RECURSIVE ConcatUpTo(_, _)
ConcatUpTo(f, n) == IF n = 0 THEN <<>> ELSE ConcatUpTo(f, n - 1) \o f[n]

\* The text with white space removed at both ends, stated without recursion.
Trimmed(s) ==
  LET inked == {k \in 1..Len(s) : s[k] \notin {" ", "\t"}}
  IN  IF inked = {} THEN <<>>
      ELSE SubSeq(s, Min(inked), CHOOSE m \in inked : \A k \in inked : k <= m)

\* The count of "{" less the count of "}" in lines 1..n.
RECURSIVE RawBalance(_, _)
RawBalance(ls, n) ==
  IF n = 0 THEN 0
  ELSE RawBalance(ls, n - 1) + Count(ls[n], "{") - Count(ls[n], "}")

\* The lowest balance of the prefixes 0..n (the empty prefix has balance 0).
LowestBalance(ls, n) == Min({0} \cup {RawBalance(ls, k) : k \in 1..n})

\* Line n takes the balance below that of every shorter prefix.
NewDeficit(ls, n) == RawBalance(ls, n) < LowestBalance(ls, n - 1)

\* The counter after line n when every negative excursion resets it to 0.
CounterAfter(ls, n) == RawBalance(ls, n) - LowestBalance(ls, n)

StartsRelationship(l) == StartsWith(Trimmed(l), <<"r", "e", "l", "a", "t", "i", "o", "n", "s", "h", "i", "p", " ">>)
EndsWithBrace(l) == Trimmed(l) # <<>> /\ Trimmed(l)[Len(Trimmed(l))] = "}"

\* Some line m <= n starts a relationship and no line m..last ends with "}".
OpenSpan(ls, n, last) ==
  \E m \in 1..n :
    StartsRelationship(ls[m]) /\ \A k \in m..last : ~EndsWithBrace(ls[k])

FlagWhileChecking(ls, n) == OpenSpan(ls, n, n - 1)
FlagAfter(ls, n) == OpenSpan(ls, n, n)

\* The recognized cardinality tokens.
Tokens == {<<"0", ".", ".", "N">>, <<"1", ".", ".", "N">>, <<"0", ".", ".", "1">>, <<"1", ".", ".", "1">>, <<"N">>, <<"1">>}

\* A bracket's content: a token, or a token, "|" and a role designator.
ContentRecognized(c) ==
  \/ c \in Tokens
  \/ \E tok \in Tokens :
       /\ StartsWith(c, tok)
       /\ Len(c) > Len(tok)
       /\ LET rest == Trimmed(SubSeq(c, Len(tok) + 1, Len(c)))
          IN  rest # <<>> /\ rest[1] = "|"

HasBrackets(t) == Count(t, "[") > 0 /\ Count(t, "]") > 0

\* Some [ ... ] of the segment holds a recognized content.
SegmentRecognized(t) ==
  \E p \in 1..Len(t) : \E q \in (p + 1)..Len(t) :
    t[p] = "[" /\ t[q] = "]" /\ ContentRecognized(SubSeq(t, p + 1, q - 1))

UnrecognizedSegments(l) ==
  LET segs == Split(l, Arrow)
  IN  Cardinality({k \in 1..Len(segs) : HasBrackets(segs[k]) /\ ~SegmentRecognized(segs[k])})

\* A declaration as the pattern reads: optional "weak ", the keyword, one or
\* more separators, then a letter or underscore.
DeclShape(s, weak, kw, seps) ==
  LET head == (IF weak THEN <<"w", "e", "a", "k", " ">> ELSE <<>>) \o kw
      after == {k \in (Len(head) + 1)..Len(s) : s[k] \notin seps}
  IN  /\ StartsWith(s, head)
      /\ after # {}
      /\ Min(after) > Len(head) + 1
      /\ s[Min(after)] \in IdentStart

EntityShape(s, seps) == DeclShape(s, FALSE, KwEntity, seps) \/ DeclShape(s, TRUE, KwEntity, seps)
RelationshipShape(s, seps) == DeclShape(s, FALSE, KwRelationship, seps)

EntityKeyword(s) == StartsWith(s, <<"e", "n", "t", "i", "t", "y", " ">>) \/ StartsWith(s, <<"w", "e", "a", "k", " ", "e", "n", "t", "i", "t", "y", " ">>)
RelationshipKeyword(s) == StartsWith(s, <<"r", "e", "l", "a", "t", "i", "o", "n", "s", "h", "i", "p", " ">>)

\* The declaration issues are those the pattern with separators seps gives.
DeclIssuesAsPattern(seps) ==
  /\ \A n \in 1..Len(lines) :
       LET s == Trimmed(lines[n])
       IN  /\ CountIn(issues, EntityIssue(n, s))
                = (IF EntityKeyword(s) /\ ~EntityShape(s, seps) THEN 1 ELSE 0)
           /\ CountIn(issues, RelationshipIssue(n, s))
                = (IF RelationshipKeyword(s) /\ ~RelationshipShape(s, seps) THEN 1 ELSE 0)
  /\ \A k \in DOMAIN issues :
       issues[k].kind \in {"Invalid entity declaration", "Invalid relationship declaration"}
         => /\ issues[k].line \in 1..Len(lines)
            /\ issues[k].text = Trimmed(lines[issues[k].line])

\* The preconditions of a clean document, each stated on the lines.
FirstLineIsHeader(ls) == ls # <<>> /\ StartsWith(Trimmed(ls[1]), <<"e", "r", "d", "i", "a", "g", "r", "a", "m">>)

NotationInFirstTen(ls) ==
  \E k \in 1..Len(ls) : k <= 10 /\ StartsWith(Trimmed(ls[k]), <<"n", "o", "t", "a", "t", "i", "o", "n", "=">>)

\* Every "}" closes an earlier "{" and every "{" is closed.
BracesBalanced(ls) ==
  LET t == FileText(ls)
      Depth(k) == Count(SubSeq(t, 1, k), "{") - Count(SubSeq(t, 1, k), "}")
  IN  Depth(Len(t)) = 0 /\ \A k \in 1..Len(t) : Depth(k) >= 0

DeclarationsWellFormed(ls) ==
  \A n \in 1..Len(ls) :
    LET s == Trimmed(ls[n])
    IN  /\ EntityKeyword(s) => EntityShape(s, {" "})
        /\ RelationshipKeyword(s) => RelationshipShape(s, {" "})

CardinalitiesRecognized(ls) == \A n \in 1..Len(ls) : UnrecognizedSegments(ls[n]) = 0

NoQuotes(ls) == \A n \in 1..Len(ls) : Count(ls[n], "\"") = 0

BodyClean(ls) ==
  /\ NotationInFirstTen(ls)
  /\ NoQuotes(ls)
  /\ DeclarationsWellFormed(ls)
  /\ CardinalitiesRecognized(ls)
  /\ BracesBalanced(ls)

\* C1: the run exits with status 2 when the argument count is not one or the
\* path names nothing, and then check_file never runs and no issue is
\* printed; otherwise, once check_file has returned, the status is 0 exactly
\* when the issue list is empty and 1 exactly when it is not, and then
\* "Found issues:" is printed first, followed by every issue in list order,
\* each prefixed with "- ".
C1_ExitStatus ==
  /\ pc \notin {"main", "exit", "raised"} => nargs = 1 /\ file.exists
  /\ pc \in {"exit", "raised"} /\ (nargs # 1 \/ ~file.exists) =>
       /\ pc = "exit" /\ status = 2
       /\ Len(out) = 1 /\ out[1].what \in {"Usage", "File not found"}
       /\ lines = <<>> /\ issues = <<>>
  /\ pc = "exit" /\ nargs = 1 /\ file.exists =>
       /\ status \in {0, 1}
       /\ status = 0 <=> issues = <<>>
       /\ status = 1 <=> issues # <<>>
       /\ issues # <<>> =>
            /\ Len(out) = Len(issues) + 1
            /\ out[1] = Printed("Found issues:", NoIssue)
            /\ \A k \in 1..Len(issues) : out[k + 1] = Printed("- ", issues[k])

C1_Witness ==
  /\ pc = "exit" /\ status = 1 /\ Len(issues) >= 2
  /\ out[2] = Printed("- ", issues[1]) /\ out[3] = Printed("- ", issues[2])

\* C2: a document whose first line is the erdiagram header, with a notation=
\* line in its first 10 lines, balanced braces, well-formed declaration
\* lines, recognized cardinalities and no double quote yields no issue, and
\* the run exits with status 0.
C2_CleanDocumentPasses ==
  Returned /\ FirstLineIsHeader(lines) /\ BodyClean(lines) =>
    issues = <<>> /\ (pc = "exit" => status = 0)

C2_Witness ==
  /\ pc = "exit" /\ status = 0
  /\ FirstLineIsHeader(lines) /\ BodyClean(lines)
  /\ \E n \in 1..Len(lines) : EntityKeyword(Trimmed(lines[n]))
  /\ \E n \in 1..Len(lines) : Count(lines[n], "}") > 0

C4_IssueIffNotAToken ==
  AfterCard =>
    \A n \in 1..Len(lines) :
      FlagWhileChecking(lines, n) /\ Contains(lines[n], Arrow) =>
        CountIn(issues, CardinalityIssue(n, Trimmed(lines[n])))
          = UnrecognizedSegments(lines[n])

\* C5: the brace counter is never negative after a line; exactly one
\* mismatched-braces issue is emitted when the counter after the last line,
\* computed with the reset to 0, is not 0, and none otherwise; so the issue
\* appears only for unclosed "{".
C5_MismatchedBraces ==
  /\ open_braces >= 0
  /\ AfterBraces =>
       /\ CountIn(issues, MismatchedIssue)
            = (IF CounterAfter(lines, Len(lines)) # 0 THEN 1 ELSE 0)
       /\ CountIn(issues, MismatchedIssue) = 1 => CounterAfter(lines, Len(lines)) > 0

C5_Witness ==
  /\ AfterBraces
  /\ RawBalance(lines, Len(lines)) = 0
  /\ CountIn(issues, MismatchedIssue) = 1
  /\ \E n \in 1..Len(lines) : CountIn(issues, UnmatchedIssue(n)) = 1

\* C6 as claimed: the separators between the keyword and the name are
\* spaces.
C6_DeclarationsSpaces == AfterDecl => DeclIssuesAsPattern({" "})

\* C6: a line whose trimmed form starts with "entity " or "weak entity "
\* gets an invalid-entity issue with the trimmed text exactly when it does
\* not begin with optional "weak ", "entity", one or more white-space
\* characters (spaces or tabs) and a letter or underscore; the same holds
\* with "relationship"; no other line gets a declaration issue.
C6_DeclarationsWhitespace == AfterDecl => DeclIssuesAsPattern({" ", "\t"})

C6_Witness ==
  /\ AfterDecl
  /\ \E n \in 1..Len(lines) :
       /\ lines[n] = <<"e", "n", "t", "i", "t", "y", " ", "2", "B", "a", "d", " ", "{", " ", "i", "d", " ", "}">>
       /\ CountIn(issues, EntityIssue(n, lines[n])) = 1
  /\ \E n \in 1..Len(lines) :
       /\ lines[n] = <<"e", "n", "t", "i", "t", "y", " ", "\t", "F", "o", "o">>
       /\ \A k \in DOMAIN issues : issues[k].line # n

\* C7: exactly one notation issue is emitted when none of the first 10
\* lines, trimmed, begins with "notation=", and none otherwise; a notation=
\* line on line 11 or later does not suppress it.
C7_NotationIssue ==
  AfterNotation =>
    CountIn(issues, NotationIssue) = (IF NotationInFirstTen(lines) THEN 0 ELSE 1)

C7_Witness ==
  /\ Finished /\ Len(lines) >= 11
  /\ StartsWith(Trimmed(lines[11]), <<"n", "o", "t", "a", "t", "i", "o", "n", "=">>)
  /\ CountIn(issues, NotationIssue) = 1

\* C8: exactly one header issue is emitted when the document is empty or its
\* first line, trimmed, does not begin with "erdiagram", and none otherwise;
\* a document that lacks only the header yields that one issue alone and
\* exit status 1.
C8_HeaderIssue ==
  /\ AfterHeader =>
       CountIn(issues, HeaderIssue) = (IF FirstLineIsHeader(lines) THEN 0 ELSE 1)
  /\ Returned /\ ~FirstLineIsHeader(lines) /\ BodyClean(lines) =>
       issues = <<HeaderIssue>> /\ (pc = "exit" => status = 1)

C8_Witness ==
  /\ pc = "exit" /\ status = 1
  /\ ~FirstLineIsHeader(lines) /\ BodyClean(lines)
  /\ issues = <<HeaderIssue>>
  /\ \E n \in 1..Len(lines) : EntityKeyword(Trimmed(lines[n]))

\* What each check finds in a document, taken alone.
HeaderFindings(ls) == IF FirstLineIsHeader(ls) THEN <<>> ELSE <<HeaderIssue>>
NotationFindings(ls) == IF NotationInFirstTen(ls) THEN <<>> ELSE <<NotationIssue>>
BraceFindings(ls) ==
  ConcatUpTo([n \in 1..Len(ls) |->
                IF NewDeficit(ls, n) THEN <<UnmatchedIssue(n)>> ELSE <<>>], Len(ls))
    \o (IF CounterAfter(ls, Len(ls)) # 0 THEN <<MismatchedIssue>> ELSE <<>>)
DeclFindings(ls) == ConcatUpTo([n \in 1..Len(ls) |-> DeclIssues(n, ls[n])], Len(ls))
CardFindings(ls) ==
  ConcatUpTo([n \in 1..Len(ls) |->
                IF FlagWhileChecking(ls, n) THEN CardIssues(n, ls[n]) ELSE <<>>], Len(ls))
QuoteFindings(ls) ==
  ConcatUpTo([n \in 1..Len(ls) |->
                IF Count(ls[n], "\"") > 0 THEN <<QuoteIssue(n)>> ELSE <<>>], Len(ls))

\* C9: the returned list is the findings of the header, notation, brace,
\* declaration, cardinality and quoting checks, in this order, each check's
\* findings by ascending line and the same whatever the earlier checks found.
C9_IssueOrder ==
  /\ Returned =>
       issues = HeaderFindings(lines) \o NotationFindings(lines) \o BraceFindings(lines)
                  \o DeclFindings(lines) \o CardFindings(lines) \o QuoteFindings(lines)
  /\ pc = "decl" /\ i = 1 =>
       issues = HeaderFindings(lines) \o NotationFindings(lines) \o BraceFindings(lines)

C9_Witness ==
  /\ Returned
  /\ HeaderFindings(lines) # <<>> /\ BraceFindings(lines) # <<>>
  /\ DeclFindings(lines) # <<>> /\ QuoteFindings(lines) # <<>>

\* C10: the flag starts false, is set on a line that starts with
\* "relationship " before that line is checked and is cleared after a line
\* that ends with "}" is checked while it is set; so a cardinality issue
\* cites line n only if some line m <= n starts with "relationship " and no
\* line m..n-1 ends with "}", and a one-line relationship with a bad
\* cardinality is reported and leaves the flag false.
C10_RelationshipFlag ==
  /\ pc = "card" => rel_block = FlagAfter(lines, i - 1)
  /\ pc \in {"header", "notation", "braces", "decl"} => ~rel_block
  /\ AfterCard =>
       /\ \A k \in DOMAIN issues :
            issues[k].kind = "Unrecognized cardinality" =>
              /\ issues[k].line \in 1..Len(lines)
              /\ FlagWhileChecking(lines, issues[k].line)
       /\ \A n \in 1..Len(lines) :
            /\ StartsRelationship(lines[n]) /\ EndsWithBrace(lines[n])
            /\ CardIssues(n, lines[n]) # <<>>
            => /\ CountIn(issues, CardinalityIssue(n, Trimmed(lines[n])))
                    = Len(CardIssues(n, lines[n]))
               /\ ~FlagAfter(lines, n)

C10_Witness ==
  /\ AfterCard /\ Len(lines) >= 3
  /\ StartsRelationship(lines[1]) /\ ~EndsWithBrace(lines[1])
  /\ EndsWithBrace(lines[2])
  /\ lines[3] = <<"A", " ", "-", ">", " ", "B", " ", "[", "m", "a", "y", "b", "e", "]">>
  /\ IssuesOfKind({"Unrecognized cardinality"}) = <<>>
====
